---- MODULE Spec2Model ----
(***************************************************************************)
(* Model of the two self-installing supervisors of the repository:         *)
(*   gr.py   - the sentinel watchdog ("grim reaper"): install-or-run,      *)
(*             warm-up delay, then a loop that checks the sentinel file    *)
(*             and fires the fail-safe when it is stale;                   *)
(*   myne.py - the worker supervisor: install-or-run, plan from the core   *)
(*             count, then a loop that respawns the workers when none is   *)
(*             observed running.                                           *)
(* One behaviour follows one of the two programs (prog) on one host over   *)
(* several process lifetimes (Launch).  Times are in seconds.              *)
(***************************************************************************)
EXTENDS Integers, Sequences, FiniteSets, TLC

VARIABLES
    prog,          \* which script this host runs: "gr" or "myne"
    pc,            \* position of the process in main()
    exitCode,      \* exit status of the process, -1 while it has none
    exitWhy,       \* why the process ended
    src,           \* content of the running script file (SCRIPT_PATH)
    tgt,           \* content of the install target, NoFile when it is absent
    svcFile,       \* the service descriptor holds the complete template
    unit,          \* service manager: [reloaded, enabled, started]
    inst,          \* what install_self did, while main acts on its result
    sentinel,      \* /root/.death_touch: "absent", "unreadable" or "present"
    age,           \* seconds elapsed since the sentinel's mtime
    upOut,         \* what `uptime -p` printed: [d, h, m], until the loop starts
    uptime,        \* the value get_system_uptime returned, -1 before
    slept,         \* the warm-up delay main slept, -1 when none
    checks,        \* sentinel checks done in this lifetime
    sleeps,        \* interval sleeps done in this lifetime
    shutdownCalls, \* shutdown_system invocations in this lifetime
    lastCheck,     \* what the sentinel check of the current tick saw and returned
    poweredOff,    \* the power-off command reached the control interface
    cores,         \* what os.cpu_count() returned, 0 for None, -1 before
    commands,      \* the command list built from the plan
    idx,           \* position of the `for command in commands` loop
    workers,       \* live xmrig processes per role
    lastObs,       \* what the tick's check_xmrig_running returned
    spawned,       \* roles spawned in the current pass, in order
    verified,      \* results of the post-spawn checks of the current pass
    passes,        \* loop passes completed in this lifetime
    killCalls,     \* kill_xmrig invocations in this lifetime
    own,           \* the live processes per role that this process spawned
    lastKill       \* the last kill_xmrig call: outcome, pids listed, pids
                   \* listed that were sent no signal

vars == <<prog, pc, exitCode, exitWhy, src, tgt, svcFile, unit, inst,
          sentinel, age, upOut, uptime, slept, checks, sleeps,
          shutdownCalls, lastCheck, poweredOff, cores, commands, idx,
          workers, lastObs, spawned, verified, passes, killCalls, own, lastKill>>

fsVars == <<src, tgt, svcFile, unit>>
grVars == <<sentinel, age, upOut, uptime, slept, checks, sleeps,
            shutdownCalls, lastCheck, poweredOff>>
myVars == <<cores, commands, idx, workers, lastObs, spawned, verified, passes,
            killCalls, own, lastKill>>

(***************************************************************************)
(* Bounds of the model.                                                    *)
(***************************************************************************)
MaxTicks == 2      \* sentinel checks (gr) or loop passes (myne) per lifetime
MaxDays == 1       \* days component `uptime -p` may print
MaxCores == 9      \* largest core count os.cpu_count() reports
NVersions == 2     \* distinct contents of the script

(***************************************************************************)
(* Program constants.                                                      *)
(***************************************************************************)
StaleThreshold == 129600   \* timedelta(hours=36), in seconds
MinUptime == 1800
CheckInterval == 420
SLEEP_INTERVAL == 60
CPU_LIMIT_THRESHOLD == 8
CPU_LIMIT_LOW == 40

Versions == 1..NVersions
NoFile == 0
PartialCopy == NVersions + 1      \* a truncated copy: equal to no version
DstShift == 60 * 60               \* a daylight-saving change of the local zone
AgeCap == StaleThreshold + DstShift + MinUptime + CheckInterval
Min(a, b) == IF a < b THEN a ELSE b

(***************************************************************************)
(* Content Identity.  A digest is a function of the content alone and two  *)
(* different contents have different digests; None when the read fails.    *)
(***************************************************************************)
HashNone == <<"None">>
calculate_file_hash(content, readable) ==
    IF readable /\ content # NoFile THEN <<"sha256", content>> ELSE HashNone

(***************************************************************************)
(* Installer.  A run of install_self meets at most one fault:              *)
(*   srcHash / tgtHash   the digest of the script / the target fails       *)
(*   copyFail            the copy raises before it wrote anything          *)
(*   copyPartial         the copy raises after truncating the target       *)
(*   svcOpen             open(service_path, 'w') raises                    *)
(*   svcPartial          the write raises after open truncated the file    *)
(*   reloadRaise, enableRaise, startRaise   systemctl cannot be executed   *)
(*   reloadNZ, enableNZ, startNZ            systemctl exits non-zero       *)
(***************************************************************************)
Faults == {"none", "srcHash", "tgtHash", "copyFail", "copyPartial",
           "svcOpen", "svcPartial", "reloadRaise", "enableRaise",
           "startRaise", "reloadNZ", "enableNZ", "startNZ"}

NeverUpToDate(s, t, f) == FALSE
UpToDate(s, t, f) ==
    /\ t # NoFile
    /\ calculate_file_hash(s, f # "srcHash") = calculate_file_hash(t, f # "tgtHash")

\* The fault f is met by a run that starts with script s and target t.
FaultReached(f, s, t) ==
    CASE f = "none"    -> TRUE
      [] f = "srcHash" -> TRUE
      [] f = "tgtHash" -> t # NoFile
      [] OTHER         -> ~UpToDate(s, t, "none")

\*  How far a run gets: the number of the last step it completes.
\*   0 digest of the script   1 digest of the target and comparison
\*   2 copy   3 descriptor    4 daemon-reload   5 enable   6 start
StepsDoneUnhashed(f) ==
    CASE f = "tgtHash"     -> 0
      [] f = "copyFail"    -> 1
      [] f = "copyPartial" -> 1
      [] f = "svcOpen"     -> 2
      [] f = "svcPartial"  -> 2
      [] f = "reloadRaise" -> 3
      [] f = "enableRaise" -> 4
      [] f = "startRaise"  -> 5
      [] OTHER             -> 6
StepsDone(f) ==
    CASE f = "srcHash"     -> 0
      [] f = "tgtHash"     -> 0
      [] f = "copyFail"    -> 1
      [] f = "copyPartial" -> 1
      [] f = "svcOpen"     -> 2
      [] f = "svcPartial"  -> 2
      [] f = "reloadRaise" -> 3
      [] f = "enableRaise" -> 4
      [] f = "startRaise"  -> 5
      [] OTHER             -> 6

\* shutil.copy(script_path, target_path) / cp: the target's content afterwards
CopyTruncated(s) == PartialCopy
CopyResult(s) == s

\* install_self as a function of the state it finds and the fault it meets:
\* the value it returns, what it logs, and the files and units it leaves.
InstallSelf(s, t, sv, u, f) ==
    IF StepsDone(f) = 0
    THEN [ret |-> FALSE, log |-> "error", tgt |-> t, svcFile |-> sv, unit |-> u,
          fx |-> {}, fault |-> f]
    ELSE IF UpToDate(s, t, f)
    THEN [ret |-> FALSE, log |-> "up_to_date", tgt |-> t, svcFile |-> sv,
          unit |-> u, fx |-> {}, fault |-> f]
    ELSE LET n == StepsDone(f)
             raised == n < 6
         IN  [ret |-> ~raised,
              log |-> IF raised THEN "error" ELSE "installed",
              tgt |-> IF n >= 2 THEN CopyResult(s)
                      ELSE IF f = "copyPartial" THEN PartialCopy ELSE t,
              svcFile |-> IF n >= 3 THEN TRUE
                          ELSE IF f = "svcPartial" THEN FALSE ELSE sv,
              unit |-> [reloaded |-> IF n >= 3
                                     THEN (n >= 4 /\ f # "reloadNZ")
                                     ELSE IF f = "svcPartial" THEN FALSE
                                     ELSE u.reloaded,
                        enabled  |-> u.enabled \/ (n >= 5 /\ f # "enableNZ"),
                        started  |-> u.started \/ (n >= 6 /\ f # "startNZ")],
              fx |-> {x \in {"copy"} : n >= 2}
                     \cup {x \in {"write"} : n >= 3}
                     \cup {x \in {"reload"} : n >= 4}
                     \cup {x \in {"enable"} : n >= 5}
                     \cup {x \in {"start"} : n >= 6},
              fault |-> f]

NoInstall == [ret |-> FALSE, log |-> "none", fx |-> {}, fault |-> "none",
              after |-> FALSE, half |-> FALSE]
NoCheck == [st |-> "none", age |-> 0, wall |-> 0, ret |-> FALSE]
NoUnit == [reloaded |-> FALSE, enabled |-> FALSE, started |-> FALSE]
FullUnit == [reloaded |-> TRUE, enabled |-> TRUE, started |-> TRUE]
NoUptime == [d |-> 0, h |-> 0, m |-> 0]

\* main: `if install_self(): return` (gr.py) / `sys.exit(0)` (myne.py)
AfterInstallGoOn(ret, next) == next
AfterInstall(ret, next) == IF ret THEN "exited" ELSE next

\* The first statement of main: install_self and the branch on its result.
\* inst.after tells that the call before this one, in the lifetime before,
\* returned True and the script was not replaced since; inst.half that a
\* call raised after it had copied the script and no call has returned True
\* since.
Install(next) ==
    /\ pc = "start"
    /\ \E f \in Faults :
         /\ FaultReached(f, src, tgt)
         /\ LET r == InstallSelf(src, tgt, svcFile, unit, f)
            IN  /\ tgt' = r.tgt
                /\ svcFile' = r.svcFile
                /\ unit' = r.unit
                /\ inst' = [ret |-> r.ret, log |-> r.log, fx |-> r.fx,
                            fault |-> r.fault, after |-> inst.after,
                            half |-> IF r.ret THEN FALSE
                                     ELSE IF r.log = "error" /\ "copy" \in r.fx
                                     THEN TRUE ELSE inst.half]
                /\ pc' = AfterInstall(r.ret, next)
                /\ IF pc' = "exited"
                   THEN exitCode' = 0 /\ exitWhy' = "handoff"
                   ELSE UNCHANGED <<exitCode, exitWhy>>
    /\ UNCHANGED <<prog, src>>

gr_install == prog = "gr" /\ Install("uptime") /\ UNCHANGED grVars /\ UNCHANGED myVars

myne_install == prog = "myne" /\ Install("plan") /\ UNCHANGED grVars /\ UNCHANGED myVars

(***************************************************************************)
(* Watchdog mode (gr.py).                                                  *)
(***************************************************************************)
UptimeOutputs == [d : 0..MaxDays, h : {0, 1}, m : {10, 30}]

\* get_system_uptime: the hours and the minutes of "up D days, H hours, M minutes"
get_system_uptime(o) == (o.h * 3600) + (o.m * 60)

\* main, lines 139-145: the uptime sample; None is a fatal error that main
\* catches, logs and returns from.
gr_uptime ==
    /\ prog = "gr" /\ pc = "uptime"
    /\ \/ /\ pc' = "exited" /\ exitCode' = 0 /\ exitWhy' = "fatal"
          /\ UNCHANGED <<upOut, uptime>>
       \/ \E o \in UptimeOutputs :
            /\ upOut' = o
            /\ uptime' = get_system_uptime(o)
            /\ pc' = IF get_system_uptime(o) < MinUptime THEN "warmup" ELSE "check"
            /\ UNCHANGED <<exitCode, exitWhy>>
    /\ inst' = [NoInstall EXCEPT !.half = inst.half]
    /\ UNCHANGED <<prog, sentinel, age, slept, checks, sleeps,
                   shutdownCalls, lastCheck, poweredOff>>
    /\ UNCHANGED fsVars /\ UNCHANGED myVars

\* main, line 144: the length of the warm-up delay, 1800 - uptime
WarmupWholeDelay(u) == MinUptime
WarmupDelay(u) == MinUptime - u

\* main, lines 143-145: time.sleep(1800 - uptime), one call
gr_warmup ==
    /\ prog = "gr" /\ pc = "warmup"
    /\ slept' = WarmupDelay(uptime)
    /\ age' = Min(age + WarmupDelay(uptime), AgeCap)
    /\ pc' = "check"
    /\ UNCHANGED <<prog, exitCode, exitWhy, inst, sentinel, upOut, uptime, checks,
                   sleeps, shutdownCalls, lastCheck, poweredOff>>
    /\ UNCHANGED fsVars /\ UNCHANGED myVars

\* datetime.now() - datetime.fromtimestamp(mtime): both are naive local
\* datetimes, so their difference is the elapsed time plus the change of the
\* zone's UTC offset between the two instants.
WallClockAge(a, shift) == a + shift
UtcOffsetChanges(a) == IF a > 0 THEN {0 - DstShift, 0, DstShift} ELSE {0}

\* check_file_modification
check_fail_closed(st, a, shift) ==
    IF st = "present" THEN WallClockAge(a, shift) > StaleThreshold ELSE TRUE
check_file_modification(st, a, shift) ==
    IF st = "present" THEN WallClockAge(a, shift) > StaleThreshold ELSE FALSE

\* main, lines 148-149: one sentinel check of the loop
gr_check ==
    /\ prog = "gr" /\ pc = "check"
    /\ checks < MaxTicks
    /\ \E shift \in UtcOffsetChanges(age) :
         LET r == check_file_modification(sentinel, age, shift)
         IN  /\ lastCheck' = [st |-> sentinel, age |-> age,
                              wall |-> WallClockAge(age, shift), ret |-> r]
             /\ pc' = IF r THEN "shutdown" ELSE "sleep"
    /\ checks' = checks + 1
    /\ upOut' = NoUptime
    /\ UNCHANGED <<prog, exitCode, exitWhy, inst, sentinel, age, uptime,
                   slept, sleeps, shutdownCalls, poweredOff>>
    /\ UNCHANGED fsVars /\ UNCHANGED myVars

\* main, line 151: `break` follows shutdown_system whatever the write did
AfterShutdownRetry(written) == IF written THEN "exited" ELSE "sleep"
AfterShutdown(written) == "exited"

\* main, lines 150-151: shutdown_system, then break.  The write to the
\* control interface powers the host off, or raises and is logged.
gr_shutdown ==
    /\ prog = "gr" /\ pc = "shutdown"
    /\ shutdownCalls' = shutdownCalls + 1
    /\ \E written \in BOOLEAN :
         /\ poweredOff' = written
         /\ pc' = AfterShutdown(written)
         /\ exitCode' = IF pc' # "exited" \/ written THEN -1 ELSE 0
         /\ exitWhy' = IF pc' = "exited" THEN "shutdown" ELSE exitWhy
    /\ UNCHANGED <<prog, inst, sentinel, age, upOut, uptime, slept, checks, sleeps,
                   lastCheck>>
    /\ UNCHANGED fsVars /\ UNCHANGED myVars

\* main, line 152: time.sleep(420)
gr_sleep ==
    /\ prog = "gr" /\ pc = "sleep"
    /\ sleeps' = sleeps + 1
    /\ age' = Min(age + CheckInterval, AgeCap)
    /\ pc' = "check"
    /\ lastCheck' = NoCheck
    /\ UNCHANGED <<prog, exitCode, exitWhy, inst, sentinel, upOut, uptime, slept,
                   checks, shutdownCalls, poweredOff>>
    /\ UNCHANGED fsVars /\ UNCHANGED myVars

(***************************************************************************)
(* The sentinel file is written by others: it is touched, removed, or its  *)
(* metadata becomes unreadable.  The watchdog reads it in gr_check alone,  *)
(* so a change at any other moment is the same change made while the loop  *)
(* sleeps between two checks.                                              *)
(***************************************************************************)
InitAges == {0, StaleThreshold - CheckInterval, StaleThreshold - 1,
             StaleThreshold, StaleThreshold + 1}

TouchSentinel ==
    /\ prog = "gr" /\ pc = "sleep"
    /\ ~(sentinel = "present" /\ age = 0)
    /\ sentinel' = "present" /\ age' = 0
    /\ UNCHANGED <<prog, pc, exitCode, exitWhy, inst, upOut, uptime, slept, checks,
                   sleeps, shutdownCalls, lastCheck, poweredOff>>
    /\ UNCHANGED fsVars /\ UNCHANGED myVars

LoseSentinel ==
    /\ prog = "gr" /\ pc = "sleep"
    /\ \E st \in {"absent", "unreadable"} :
         /\ sentinel # st
         /\ sentinel' = st
    /\ age' = 0
    /\ UNCHANGED <<prog, pc, exitCode, exitWhy, inst, upOut, uptime, slept, checks,
                   sleeps, shutdownCalls, lastCheck, poweredOff>>
    /\ UNCHANGED fsVars /\ UNCHANGED myVars

(***************************************************************************)
(* Worker mode (myne.py).                                                  *)
(***************************************************************************)
Roles == {"main", "limited", "free"}
NoWorkers == [r \in Roles |-> 0]
AnyRunning(w) == \E r \in Roles : w[r] > 0

\* calculate_threads_and_limits: <<main, limited, free>>
calculate_threads_above_threshold(c) ==
    IF c > CPU_LIMIT_THRESHOLD THEN <<c - 2, 1, 1>> ELSE <<c - 1, 1, 0>>
calculate_threads_and_limits(c) ==
    IF c >= CPU_LIMIT_THRESHOLD THEN <<c - 2, 1, 1>> ELSE <<c - 1, 1, 0>>

\* create_xmrig_commands: one command per role with a positive thread count;
\* limit 0 is a command that is not wrapped in cpulimit.
create_xmrig_commands(t) ==
    (IF t[1] > 0 THEN <<[role |-> "main", threads |-> t[1], limit |-> 0]>> ELSE <<>>)
    \o (IF t[2] > 0
        THEN <<[role |-> "limited", threads |-> 1, limit |-> CPU_LIMIT_LOW]>>
        ELSE <<>>)
    \o (IF t[3] > 0 THEN <<[role |-> "free", threads |-> 1, limit |-> 0]>> ELSE <<>>)

\* check_xmrig_running: pgrep exits 0 exactly when some process matches
check_xmrig_running(w) == AnyRunning(w)

\* kill_xmrig.  "ok": pgrep ran and every pid it listed was killed;
\* "pgrepRaise": pgrep could not be run; "killRaise": a listed pid had gone
\* when its signal was sent, kill exits non-zero and check=True raises, so
\* the pids listed after it are left alone.
KillOutcomes == {"ok", "pgrepRaise", "killRaise"}
KillResults(k, w) ==
    CASE k = "ok"         -> {NoWorkers}
      [] k = "pgrepRaise" -> {w}
      [] k = "killRaise"  ->
            {v \in [Roles -> {0, 1}] :
                /\ \A r \in Roles : v[r] <= w[r]
                /\ \E r \in Roles : v[r] < w[r]}

Count(w) == w["main"] + w["limited"] + w["free"]
NoKill == [out |-> "none", listed |-> 0, skipped |-> 0]

\* What one kill_xmrig call did, from the processes before it (w) and after
\* it (v): the pids pgrep listed, and the listed pids that were sent no
\* signal, which are the ones that live on after a kill that raised.
KillRecord(k, w, v) ==
    [out     |-> k,
     listed  |-> IF k = "pgrepRaise" THEN 0 ELSE Count(w),
     skipped |-> IF k = "killRaise" THEN Count(v) ELSE 0]

\* The processes of this supervisor among the survivors v.
OwnAmong(o, v) == [r \in Roles |-> Min(o[r], v[r])]

\* `except Exception` of main: kill_xmrig, then sys.exit(1); an exception
\* raised by kill_xmrig itself ends the process with a traceback, status 1.
Fatal ==
    /\ \E k \in KillOutcomes :
         \E v \in KillResults(k, workers) :
            /\ workers' = v
            /\ own' = OwnAmong(own, v)
            /\ lastKill' = KillRecord(k, workers, v)
    /\ killCalls' = killCalls + 1
    /\ pc' = "exited"
    /\ exitCode' = 1
    /\ exitWhy' = "fatal"

\* main, lines 176-178: the core count and the plan
myne_plan ==
    /\ prog = "myne" /\ pc = "plan"
    /\ \E c \in 0..MaxCores :
         /\ cores' = c
         /\ IF c = 0
            THEN Fatal /\ UNCHANGED commands
            ELSE /\ commands' = create_xmrig_commands(calculate_threads_and_limits(c))
                 /\ pc' = "check"
                 /\ UNCHANGED <<exitCode, exitWhy, workers, killCalls, own, lastKill>>
    /\ inst' = [NoInstall EXCEPT !.half = inst.half]
    /\ UNCHANGED <<prog, idx, lastObs, spawned, verified, passes>>
    /\ UNCHANGED fsVars /\ UNCHANGED grVars

\* main, lines 181-193: the commands are spawned when the check found no
\* process at all, and nothing is spawned otherwise
SpawnNever(running, cmds) == FALSE
SpawnAlways(running, cmds) == cmds # <<>>
SpawnNeeded(running, cmds) == ~running /\ cmds # <<>>

\* main, line 181: the liveness check that opens a pass
myne_check ==
    /\ prog = "myne" /\ pc = "check"
    /\ passes < MaxTicks
    /\ \/ Fatal /\ UNCHANGED <<lastObs, idx, spawned, verified>>
       \/ /\ lastObs' = check_xmrig_running(workers)
          /\ spawned' = <<>>
          /\ verified' = <<>>
          /\ idx' = 1
          /\ pc' = IF SpawnNeeded(check_xmrig_running(workers), commands)
                   THEN "spawn" ELSE "sleep"
          /\ UNCHANGED <<exitCode, exitWhy, workers, killCalls, own, lastKill>>
    /\ UNCHANGED <<prog, inst, cores, commands, passes>>
    /\ UNCHANGED fsVars /\ UNCHANGED grVars

\* main, line 186: run_xmrig_command(commands[idx]).  Popen raises, or it
\* returns a pid whose process runs as xmrig or ends at once.
myne_spawn ==
    /\ prog = "myne" /\ pc = "spawn"
    /\ \/ Fatal /\ UNCHANGED <<spawned>>
       \/ /\ spawned' = Append(spawned, commands[idx].role)
          /\ \E up \in BOOLEAN :
               /\ workers' = IF up
                             THEN [workers EXCEPT ![commands[idx].role] = @ + 1]
                             ELSE workers
               /\ own' = IF up
                         THEN [own EXCEPT ![commands[idx].role] = @ + 1]
                         ELSE own
          /\ pc' = "verify"
          /\ UNCHANGED <<exitCode, exitWhy, killCalls, lastKill>>
    /\ UNCHANGED <<prog, inst, cores, commands, idx, lastObs, verified, passes>>
    /\ UNCHANGED fsVars /\ UNCHANGED grVars

\* main, lines 185-191: the `for` loop goes on whatever the check returned
AfterVerifyBreak(ok, i, n) == IF ok /\ i < n THEN "spawn" ELSE "sleep"
AfterVerifyGiveUp(ok, i, n) ==
    IF ~ok /\ i = n THEN "exited" ELSE IF i < n THEN "spawn" ELSE "sleep"
AfterVerify(ok, i, n) == IF i < n THEN "spawn" ELSE "sleep"

\* main, lines 188-191: the check after a spawn; its result is only logged
myne_verify ==
    /\ prog = "myne" /\ pc = "verify"
    /\ \/ Fatal /\ UNCHANGED <<verified, idx>>
       \/ /\ verified' = Append(verified, check_xmrig_running(workers))
          /\ pc' = AfterVerify(check_xmrig_running(workers), idx, Len(commands))
          /\ idx' = IF pc' = "spawn" THEN idx + 1 ELSE idx
          /\ UNCHANGED <<exitCode, exitWhy, workers, killCalls, own, lastKill>>
    /\ UNCHANGED <<prog, inst, cores, commands, lastObs, spawned, passes>>
    /\ UNCHANGED fsVars /\ UNCHANGED grVars

\* main, line 195: asyncio.sleep(SLEEP_INTERVAL) returns
myne_sleep ==
    /\ prog = "myne" /\ pc = "sleep"
    /\ passes' = passes + 1
    /\ pc' = "check"
    /\ UNCHANGED <<prog, exitCode, exitWhy, inst, cores, commands, idx, workers,
                   lastObs, spawned, verified, killCalls, own, lastKill>>
    /\ UNCHANGED fsVars /\ UNCHANGED grVars

\* The same step of a loop that has no last pass: the pass counter stops
\* counting below its bound instead of stopping the loop.
myne_tick ==
    /\ prog = "myne" /\ pc = "sleep"
    /\ passes' = IF passes + 1 < MaxTicks THEN passes + 1 ELSE passes
    /\ pc' = "check"
    /\ UNCHANGED <<prog, exitCode, exitWhy, inst, cores, commands, idx, workers,
                   lastObs, spawned, verified, killCalls, own, lastKill>>
    /\ UNCHANGED fsVars /\ UNCHANGED grVars

\* An external interrupt (SIGINT).  `except KeyboardInterrupt` guards the
\* await of asyncio.sleep alone, and the event loop delivers an interrupt
\* that arrives during the sleep as a cancellation, or raises it in its own
\* frame: the handler runs only when the signal is raised inside the try
\* block itself.  Everywhere else KeyboardInterrupt is no Exception, so
\* nothing in main catches it and the process ends with status 130.
InterruptCaught(at, inTry) == at = "sleep" /\ inTry

myne_interrupt ==
    /\ prog = "myne" /\ pc \in {"plan", "check", "spawn", "verify", "sleep"}
    /\ \E inTry \in BOOLEAN :
         IF InterruptCaught(pc, inTry)
         THEN \E k \in KillOutcomes :
                \E v \in KillResults(k, workers) :
                   IF k = "ok"
                   THEN /\ workers' = v
                        /\ own' = OwnAmong(own, v)
                        /\ lastKill' = KillRecord(k, workers, v)
                        /\ killCalls' = killCalls + 1
                        /\ exitCode' = 0
                   ELSE \* kill_xmrig raised inside the handler: `except
                        \* Exception` of main runs it again and exits 1
                        /\ \E k2 \in KillOutcomes :
                             \E v2 \in KillResults(k2, v) :
                                /\ workers' = v2
                                /\ own' = OwnAmong(own, v2)
                                /\ lastKill' = KillRecord(k2, v, v2)
                        /\ killCalls' = killCalls + 2
                        /\ exitCode' = 1
         ELSE /\ exitCode' = 130
              /\ UNCHANGED <<workers, killCalls, own, lastKill>>
    /\ pc' = "exited"
    /\ exitWhy' = "interrupt"
    /\ UNCHANGED <<prog, inst, cores, commands, idx, lastObs, spawned, verified,
                   passes>>
    /\ UNCHANGED fsVars /\ UNCHANGED grVars

\* A worker process ends by itself: one that this supervisor spawned, or
\* one that an earlier supervisor process left behind.
WorkerExit ==
    /\ prog = "myne"
    /\ \E r \in Roles :
         /\ workers[r] > 0
         /\ workers' = [workers EXCEPT ![r] = @ - 1]
         /\ \/ own[r] > 0 /\ own' = [own EXCEPT ![r] = @ - 1]
            \/ own[r] < workers[r] /\ own' = own
    /\ UNCHANGED <<prog, pc, exitCode, exitWhy, inst, cores, commands, idx, lastObs,
                   spawned, verified, passes, killCalls, lastKill>>
    /\ UNCHANGED fsVars /\ UNCHANGED grVars

(***************************************************************************)
(* Process lifetimes.                                                      *)
(***************************************************************************)
\* The script is started again (by the service manager, at boot, by hand);
\* it may have been replaced by another version meanwhile.
Launch ==
    /\ pc = "exited"
    /\ pc' = "start"
    /\ exitCode' = -1
    /\ exitWhy' = "none"
    /\ \E v \in Versions :
         /\ src' = v
         /\ inst' = [NoInstall EXCEPT !.after = (inst.ret /\ v = src),
                                      !.half = inst.half]
    /\ upOut' = NoUptime /\ uptime' = -1 /\ slept' = -1
    /\ checks' = 0 /\ sleeps' = 0 /\ shutdownCalls' = 0
    /\ lastCheck' = NoCheck
    /\ poweredOff' = FALSE
    /\ cores' = -1 /\ commands' = <<>> /\ idx' = 1
    /\ lastObs' = FALSE /\ spawned' = <<>> /\ verified' = <<>>
    /\ passes' = 0 /\ killCalls' = 0
    /\ own' = NoWorkers /\ lastKill' = NoKill
    /\ UNCHANGED <<prog, tgt, svcFile, unit, sentinel, age, workers>>

Init ==
    /\ prog \in {"gr", "myne"}
    /\ pc = "start"
    /\ exitCode = -1
    /\ exitWhy = "none"
    /\ src = 1
    /\ \/ tgt = NoFile /\ svcFile = FALSE /\ unit = NoUnit
       \/ tgt \in Versions /\ svcFile = TRUE /\ unit = FullUnit
    /\ inst = NoInstall
    /\ IF prog = "gr"
       THEN \/ sentinel \in {"absent", "unreadable"} /\ age = 0
            \/ sentinel = "present" /\ age \in InitAges
       ELSE sentinel = "absent" /\ age = 0
    /\ upOut = NoUptime
    /\ uptime = -1
    /\ slept = -1
    /\ checks = 0 /\ sleeps = 0 /\ shutdownCalls = 0
    /\ lastCheck = NoCheck
    /\ poweredOff = FALSE
    /\ cores = -1
    /\ commands = <<>>
    /\ idx = 1
    /\ workers = NoWorkers
    /\ lastObs = FALSE
    /\ spawned = <<>>
    /\ verified = <<>>
    /\ passes = 0
    /\ killCalls = 0
    /\ own = NoWorkers
    /\ lastKill = NoKill

Next ==
    \/ gr_install
    \/ gr_uptime
    \/ gr_warmup
    \/ gr_check
    \/ gr_shutdown
    \/ gr_sleep
    \/ TouchSentinel
    \/ LoseSentinel
    \/ myne_install
    \/ myne_plan
    \/ myne_check
    \/ myne_spawn
    \/ myne_verify
    \/ myne_sleep
    \/ myne_interrupt
    \/ WorkerExit
    \/ Launch

Spec == Init /\ [][Next]_vars

(***************************************************************************)
(* The worker-mode supervisor with an unbounded loop.  The supervisor is   *)
(* one thread of control: its next statement is executed, and the sleep of *)
(* the loop returns, so its steps are weakly fair; worker exits, faults    *)
(* and interrupts are not.                                                 *)
(***************************************************************************)
InitLive == Init /\ prog = "myne"

SupervisorStep ==
    myne_install \/ myne_plan \/ myne_check \/ myne_spawn \/ myne_verify \/ myne_tick

NextLive ==
    \/ myne_install
    \/ myne_plan
    \/ myne_check
    \/ myne_spawn
    \/ myne_verify
    \/ myne_tick
    \/ myne_interrupt
    \/ WorkerExit

SpecLive == InitLive /\ [][NextLive]_vars /\ WF_vars(SupervisorStep)

(***************************************************************************)
(* Properties.                                                             *)
(***************************************************************************)
PlanRoles(cmds) == [i \in 1..Len(cmds) |-> cmds[i].role]
Hashed(c) == calculate_file_hash(c, TRUE)
InstallStep == pc = "start" /\ pc' # "start"

\* C1: in watchdog mode shutdown_system is invoked at most once in a process
\* lifetime; the step that invokes it ends the loop whether or not the write
\* to the control interface succeeded, and once it has been invoked the
\* process makes no further sentinel check and no further interval sleep.
C1_FailSafeOnceThenExit ==
    [][ /\ shutdownCalls' <= 1
        /\ (shutdownCalls' > shutdownCalls) => pc' = "exited"
        /\ (shutdownCalls >= 1 /\ pc' # "start")
              => (checks' = checks /\ sleeps' = sleeps /\ pc' = "exited") ]_vars

\* C1 witness: the fail-safe ran, its write failed, and the process is over.
C1_Witness ==
    prog = "gr" /\ shutdownCalls = 1 /\ ~poweredOff /\ pc = "exited" /\ checks = 2

C3_TrueIffElapsedAboveThreshold ==
    lastCheck.st # "none"
       => (lastCheck.ret <=> (lastCheck.st = "present"
                              /\ lastCheck.age > StaleThreshold))

\* C4: install_self started with a target whose digest equals the script's
\* returns False and changes nothing: no copy, no descriptor write, no
\* service-manager call; without a read fault it logs "up to date".
C4_UpToDateIsNoOp ==
    [][ (InstallStep /\ tgt # NoFile /\ Hashed(tgt) = Hashed(src))
          => /\ ~inst'.ret
             /\ inst'.fx = {}
             /\ tgt' = tgt /\ svcFile' = svcFile /\ unit' = unit
             /\ pc' # "exited"
             /\ inst'.fault = "none" => inst'.log = "up_to_date" ]_vars

\* C4 witness: a later lifetime, running the replaced script, found the
\* target current and went on to its RUN state.
C4_Witness ==
    src = 2 /\ tgt = 2 /\ inst.log = "up_to_date" /\ inst.fx = {}
    /\ pc \in {"uptime", "plan"}

\* C5: a fault-free install_self that finds the target missing or different
\* copies the script to the target and returns True, and the fault-free call
\* that follows it with the script unchanged returns False, "up to date".
C5_InstallThenNotNeeded ==
    [][ /\ (InstallStep /\ ~(tgt # NoFile /\ Hashed(tgt) = Hashed(src))
                        /\ inst'.fault = "none")
              => (inst'.ret /\ "copy" \in inst'.fx /\ tgt' = src)
        /\ (InstallStep /\ inst.after /\ inst'.fault = "none")
              => (~inst'.ret /\ inst'.log = "up_to_date" /\ inst'.fx = {}) ]_vars

\* C5 witness: the call after an install that returned True found nothing to do.
C5_Witness ==
    inst.after /\ inst.fault = "none" /\ inst.log = "up_to_date"
    /\ pc \in {"uptime", "plan"}

\* C6: a run of install_self that raises is reported as a failure (False,
\* logged as an error), and when a run raised after it had copied the script,
\* a later fault-free run leaves the descriptor written and the service
\* reloaded, enabled and started.
C6_FaultFreeRunHeals ==
    /\ inst.log = "error" => ~inst.ret
    /\ (inst.half /\ inst.log # "none" /\ inst.fault = "none")
          => (svcFile /\ unit.reloaded /\ unit.enabled /\ unit.started)

\* C7: when install_self returns True the process ends in that very step
\* with status 0: no uptime sample, no sentinel check, no fail-safe, no plan,
\* no liveness check and no spawn happen in that lifetime.
C7_InstalledGoesToExit ==
    [][ (pc = "start" /\ inst'.ret)
          => /\ pc' = "exited" /\ exitCode' = 0 /\ exitWhy' = "handoff"
             /\ uptime' = -1 /\ slept' = -1 /\ checks' = 0 /\ sleeps' = 0
             /\ shutdownCalls' = 0
             /\ cores' = -1 /\ commands' = <<>> /\ spawned' = <<>>
             /\ verified' = <<>> /\ passes' = 0 /\ killCalls' = 0
             /\ workers' = workers ]_vars

\* C7 witness: a process that ended by the hand-off after a full install.
C7_Witness ==
    pc = "exited" /\ exitWhy = "handoff" /\ inst.ret
    /\ inst.fx = {"copy", "write", "reload", "enable", "start"}

\* C8: in a pass whose liveness check saw no managed process, the roles
\* spawned so far are the plan's roles in plan order, each spawn is followed
\* by one verification, and at the end of the pass every command of the plan
\* was spawned once and verified once, whatever the verifications returned.
C8_ReconcileSpawnsWholePlan ==
    (prog = "myne" /\ pc \in {"spawn", "verify", "sleep"} /\ ~lastObs)
       => /\ Len(spawned) <= Len(commands)
          /\ spawned = SubSeq(PlanRoles(commands), 1, Len(spawned))
          /\ pc = "spawn" => (Len(spawned) = idx - 1 /\ Len(verified) = idx - 1)
          /\ pc = "verify" => (Len(spawned) = idx /\ Len(verified) = idx - 1)
          /\ pc = "sleep" => (/\ spawned = PlanRoles(commands)
                              /\ Len(verified) = Len(commands))

\* C8 witness: a plan of 2 commands, both spawned although the first
\* verification reported not-running.
C8_Witness ==
    /\ prog = "myne" /\ pc = "sleep" /\ ~lastObs
    /\ Len(commands) = 2 /\ spawned = <<"main", "limited">>
    /\ verified = <<FALSE, TRUE>>

\* C9: a worker-mode process that ends by an external interrupt has invoked
\* kill_xmrig and exits with status 0.
C9_InterruptKillsAllAndExitsZero ==
    exitWhy = "interrupt" => (killCalls >= 1 /\ exitCode = 0)

\* C10: the exit status is 0 after the install hand-off and after an
\* interrupt, and non-zero after an unrecoverable error, in worker mode with
\* kill_xmrig invoked before it.
C10_ExitCodes ==
    pc = "exited"
       => /\ exitWhy \in {"handoff", "interrupt"} => exitCode = 0
          /\ exitWhy = "fatal"
                => (exitCode # 0 /\ (prog = "myne" => killCalls >= 1))

\* The threads of a command list, summed over its commands.
RECURSIVE SumThreads(_)
SumThreads(cmds) ==
    IF cmds = <<>> THEN 0 ELSE Head(cmds).threads + SumThreads(Tail(cmds))

RoleCommands(cmds, r) == SelectSeq(cmds, LAMBDA c : c.role = r)

\* C11: for a core count at or above the threshold 8 the threads of all roles
\* sum to at most the core count minus one, and the limited role has exactly
\* one command, with 1 thread and a CPU ceiling of 40%.
C11_OneCoreStaysReserved ==
    (prog = "myne" /\ pc \in {"check", "spawn", "verify", "sleep"}
        /\ cores >= CPU_LIMIT_THRESHOLD)
       => /\ SumThreads(commands) <= cores - 1
          /\ RoleCommands(commands, "limited")
                = <<[role |-> "limited", threads |-> 1, limit |-> 40]>>

\* C12: the plan is a function of the core count alone: main = cores - 2,
\* limited = 1, free = 1 at 8 cores or more, main = cores - 1, limited = 1 and
\* no free role below; the command list has one command per role with a
\* positive thread count, in the order main, limited, free.
C12_PlanOfCores ==
    (prog = "myne" /\ pc \in {"check", "spawn", "verify", "sleep"})
       => /\ cores >= 1
          /\ cores >= 8 =>
                (/\ PlanRoles(commands) = <<"main", "limited", "free">>
                 /\ commands[1].threads = cores - 2
                 /\ commands[2].threads = 1
                 /\ commands[3].threads = 1)
          /\ (cores >= 2 /\ cores < 8) =>
                (/\ PlanRoles(commands) = <<"main", "limited">>
                 /\ commands[1].threads = cores - 1
                 /\ commands[2].threads = 1)
          /\ cores = 1 =>
                (/\ PlanRoles(commands) = <<"limited">>
                 /\ commands[1].threads = 1)

\* C12 witnesses: the plans of 4 cores and of 8 cores, built by the process.
C12_Witness ==
    /\ prog = "myne" /\ pc = "check"
    /\ \/ cores = 4 /\ PlanRoles(commands) = <<"main", "limited">>
                    /\ commands[1].threads = 3
       \/ cores = 8 /\ Len(commands) = 3 /\ commands[1].threads = 6

\* C13: a watchdog whose uptime sample u is below 1800 s sleeps 1800 - u
\* seconds, once, before its first sentinel check, and one whose sample is
\* 1800 s or more checks without a delay; no check is made before the delay.
C13_WarmUpBeforeFirstCheck ==
    prog = "gr"
       => /\ pc = "warmup" => (checks = 0 /\ slept = -1 /\ uptime < 1800)
          /\ (pc = "check" \/ checks > 0)
                => /\ uptime >= 0
                   /\ uptime < 1800 => slept = 1800 - uptime
                   /\ uptime >= 1800 => slept = -1
          /\ pc \in {"start", "uptime"} => (checks = 0 /\ slept = -1)

\* C13 witnesses: a sample of 600 s, a delay of 1200 s, then the first check;
\* and a sample of exactly 1800 s checked without a delay.
C13_Witness ==
    /\ prog = "gr" /\ checks = 1
    /\ \/ uptime = 600 /\ slept = 1200
       \/ uptime = 1800 /\ slept = -1

InLoop == prog = "myne" /\ pc \in {"check", "spawn", "verify", "sleep"}
Planned(r) == \E i \in 1..Len(commands) : commands[i].role = r
JustSpawned(r) == pc = "verify" /\ spawned # <<>> /\ spawned[Len(spawned)] = r

\* C14 as claimed: whenever the process of a planned role is not running
\* while the supervisor is in its loop, the supervisor eventually spawns that
\* role, whatever the other roles' processes do (or it has left the loop).
C14_MissingRoleIsRespawned ==
    \A r \in Roles :
        (InLoop /\ Planned(r) /\ workers[r] = 0) ~> (JustSpawned(r) \/ pc = "exited")

\* C14, amended: whenever no managed process at all is running while the
\* supervisor is in its loop, the supervisor eventually completes a pass that
\* spawned every command of the plan (or it has left the loop).
C14_AllDownRespawnsPlan ==
    (InLoop /\ ~AnyRunning(workers))
       ~> (pc = "exited" \/ (pc = "sleep" /\ ~lastObs /\ spawned = PlanRoles(commands)))

\* C14 witness: a pass after the first one found nothing running and
\* spawned the three commands of the plan.
C14_Witness ==
    /\ prog = "myne" /\ pc = "sleep" /\ passes >= 1 /\ ~lastObs
    /\ spawned = <<"main", "limited", "free">>

\* C15: a kill_xmrig call that got the list of pids sends KILL to every pid
\* of the list, also when a listed process has gone before its signal.
C15_KillSignalsEveryListedPid ==
    lastKill.out \in {"ok", "killRaise"} => lastKill.skipped = 0

\* C20: a tick that observes a managed process spawns nothing, and the live
\* processes that the supervisor spawned are at most one per command of the
\* plan, so at most as many as the plan has roles.
C20_AtMostOneProcessPerRole ==
    prog = "myne"
       => /\ \A r \in Roles : own[r] <= (IF Planned(r) THEN 1 ELSE 0)
          /\ Count(own) <= Len(commands)
          /\ (pc = "sleep" /\ lastObs) => spawned = <<>>

\* C20 witness: a later tick observed the processes of an earlier pass, of
\* which one has ended since, and spawned nothing.
C20_Witness ==
    /\ prog = "myne" /\ pc = "sleep" /\ passes >= 1 /\ lastObs
    /\ Len(commands) = 3 /\ Count(own) = 2 /\ spawned = <<>>

\* C16: a sentinel check made after the warm-up on a file that exists and is
\* older than the threshold is the last one: it invokes the fail-safe, so a
\* file that stays stale triggers it at the next check, within one interval.
C16_StaleAtCheckTriggers ==
    (prog = "gr" /\ lastCheck.st = "present" /\ lastCheck.age > StaleThreshold)
       => (pc = "shutdown" \/ shutdownCalls >= 1)

\* C17: a verification that reports no managed process does not end the
\* supervisor: the pass goes on and ends in the interval sleep, the sleep is
\* followed by the next liveness check, and a check that finds no managed
\* process starts a new pass at the first command of the plan.
C17_FailedPassIsRetried ==
    [][ prog = "myne" =>
          /\ (pc = "verify" /\ verified' # verified /\ ~AnyRunning(workers))
                => (/\ pc' = (IF idx < Len(commands) THEN "spawn" ELSE "sleep")
                    /\ exitCode' = -1 /\ killCalls' = killCalls)
          /\ (pc = "sleep" /\ pc' \notin {"sleep", "exited"})
                => (pc' = "check" /\ commands' = commands)
          /\ (pc = "check" /\ pc' \notin {"check", "exited"} /\ ~AnyRunning(workers))
                => (pc' = "spawn" /\ idx' = 1 /\ spawned' = <<>> /\ ~lastObs') ]_vars

\* C17 witness: the pass after the first interval sleep spawned both
\* commands of the plan again and again no process is observed.
C17_Witness ==
    /\ prog = "myne" /\ pc = "sleep" /\ passes = 1 /\ ~lastObs
    /\ spawned = <<"main", "limited">> /\ verified = <<FALSE, FALSE>>
    /\ ~AnyRunning(workers)

\* C18: an install_self call that cannot compute the digest of the running
\* script copies nothing, leaves the descriptor and the service units as
\* they are, returns False with an error logged, and the program goes on
\* into its RUN state (the uptime sample, the core count) without exiting.
C18_NoDigestNoInstall ==
    [][ (InstallStep /\ inst'.fault = "srcHash")
          => /\ ~inst'.ret /\ inst'.log = "error"
             /\ inst'.fx = {}
             /\ tgt' = tgt /\ svcFile' = svcFile /\ unit' = unit
             /\ pc' = (IF prog = "gr" THEN "uptime" ELSE "plan")
             /\ exitCode' = -1 ]_vars

\* C18 witness: the digest failed in a run whose target differs from the
\* script, so that an install was due.
C18_Witness ==
    /\ pc \in {"uptime", "plan"} /\ inst.fault = "srcHash"
    /\ tgt # src /\ ~inst.ret

\* The uptime that the output of `uptime -p` reports, in seconds.
ReportedUptime(o) == (o.d * 86400) + (o.h * 3600) + (o.m * 60)

\* C19: the uptime sample is the uptime the host reports, days included, and
\* the warm-up delay is entered only by a host that has been up for less
\* than 1800 seconds.
C19_SampleIsHostUptime ==
    (prog = "gr" /\ checks = 0 /\ pc \in {"warmup", "check"})
       => /\ uptime = ReportedUptime(upOut)
          /\ pc = "warmup" => ReportedUptime(upOut) < 1800
====
